---- MODULE Spec2Model ----
(***************************************************************************)
(* Model of minios: the VGA text-buffer Writer (src/src/vga_buffer.rs),    *)
(* the global console singleton and its spin lock, the test harness and    *)
(* the exit protocol (src/src/lib.rs, src/src/main.rs).                    *)
(***************************************************************************)
EXTENDS Integers, Sequences, FiniteSets, TLC

(***************************************************************************)
(* Bounds.  The source has BUFFER_HEIGHT = 25 and BUFFER_WIDTH = 80        *)
(* (vga_buffer.rs:51-52); the grid is scaled down here so that wrap and    *)
(* scroll happen within a few writes.  Nothing in the Writer depends on    *)
(* the two values other than through these names.                          *)
(***************************************************************************)
BUFFER_HEIGHT == 3
BUFFER_WIDTH == 3
\* total number of bytes handed to the Writer in one run of Spec
MaxBytes == 4
\* longest string handed to write_string / longest fragment of a print
MaxStrLen == 2
\* most pieces (literal segments and formatted arguments) of one print
MaxPieces == 2
\* most test cases handed to a test runner
MaxTests == 3
\* most print calls the application makes in one run of LockSpec
MaxPrints == 2

(***************************************************************************)
(* Bytes.                                                                  *)
(***************************************************************************)
NEWLINE == 10
SPACE == 32
PRINTABLE_LO == 32
PRINTABLE_HI == 126
REPLACEMENT == 254

\* the bytes the model feeds to the Writer: newline, the two ends of the
\* printable range (0x20, 0x7e), and the bytes just outside it (0x1f, 0x7f)
TestBytes == {NEWLINE, 31, 32, 126, 127}

RECURSIVE SeqsUpTo(_, _)
SeqsUpTo(S, n) ==
  IF n = 0 THEN {<< >>}
  ELSE LET shorter == SeqsUpTo(S, n - 1)
       IN  shorter \cup {Append(s, b) : s \in {t \in shorter : Len(t) = n - 1}, b \in S}

TestStrings == SeqsUpTo(TestBytes, MaxStrLen)

\* the pieces of a formatted print: a newline, a printable byte, a byte that
\* is not printable; a print has between one and MaxPieces pieces
PieceBytes == {NEWLINE, 126, 127}
PieceStrings == SeqsUpTo(PieceBytes, 1)
PrintArgs == SeqsUpTo(PieceStrings, MaxPieces) \ {<< >>}

(***************************************************************************)
(* Cell model: Color, ColorCode, ScreenChar.                               *)
(***************************************************************************)
Black == 0
Yellow == 14

RECURSIVE BitOr(_, _)
BitOr(a, b) ==
  IF a = 0 THEN b
  ELSE IF b = 0 THEN a
  ELSE (IF (a % 2 = 1) \/ (b % 2 = 1) THEN 1 ELSE 0) + 2 * BitOr(a \div 2, b \div 2)

\* the discriminants of Color, Black = 0 up to White = 15
Colors == 0 .. 15

\* ColorCode::new with the background shifted by 3 instead of 4
ColorCode_new_shift3(foreground, background) ==
  BitOr((background * 8) % 256, foreground)

\* ColorCode((background as u8) << 4 | (foreground as u8))
ColorCode_new(foreground, background) ==
  BitOr((background * 16) % 256, foreground)

ScreenChar(ascii_character, color_code_) ==
  [ascii_character |-> ascii_character, color_code |-> color_code_]

Rows == 0 .. (BUFFER_HEIGHT - 1)
Cols == 0 .. (BUFFER_WIDTH - 1)

(***************************************************************************)
(* The memory at 0xb8000 is not initialised by the program: when the       *)
(* Writer is constructed it holds whatever the firmware left there.  The   *)
(* model starts from a grid whose cells all differ, some of them holding   *)
(* glyphs outside the printable range, none with the Writer's attribute.   *)
(***************************************************************************)
FirmwareGrid ==
  [r \in Rows |-> [c \in Cols |-> ScreenChar((29 + 53 * (r * BUFFER_WIDTH + c)) % 256, 7)]]
InitialGrids == {FirmwareGrid}

VARIABLES
  column_position,  \* Writer.column_position
  color_code,       \* Writer.color_code
  buffer,           \* Writer.buffer: the grid at 0xb8000
  events,           \* history: what the last Writer operation did, in order
  lastOp,           \* history: the last Writer operation and its argument
  fed,              \* history: bytes handed to the Writer so far
  run,              \* history: printable bytes written by consecutive write_byte calls since column 0
  runScrolls,       \* history: scrolls performed during the current run
  sinceScroll       \* history: whether a scroll has occurred, and the glyphs stored since the last one

writerVars == <<column_position, color_code, buffer, events, lastOp, fed, run, runScrolls, sinceScroll>>

VARIABLES
  mode,             \* which image runs: "lib_test", "bin_test" or "bin_boot"
  tests,            \* the test cases handed to the runner: each returns ("ok") or panics ("abort")
  startAborts,      \* whether the code _start runs before its loop panics (boot image)
  qemu,             \* whether the emulator ends the process on a write to the exit port
  pc,               \* where the single execution context is
  idx,              \* test_runner's position in tests
  out,              \* everything emitted so far, in order: serial, VGA console, I/O port
  executed          \* history: the test cases entered, in order

harnessVars == <<mode, tests, startAborts, qemu, pc, idx, out, executed>>

VARIABLES
  locked,           \* the flag of the spin::Mutex around WRITER
  frames,           \* the _print calls on the stack of the execution context, innermost last
  ctx,              \* what the execution context runs: "app", "handler", "handler_print", "halt"
  prints            \* history: print calls made by the application so far

lockVars == <<locked, frames, ctx, prints>>

VARIABLES
  callers,          \* concurrent callers of _print: for each its stack of _print calls and what it runs
  stream            \* history: for each byte forwarded to the Writer, the call that forwarded it

concVars == <<callers, stream>>

vars == <<column_position, color_code, buffer, events, lastOp, fed, run, runScrolls, sinceScroll,
          mode, tests, startAborts, qemu, pc, idx, out, executed,
          locked, frames, ctx, prints, callers, stream>>

(***************************************************************************)
(* The Writer as a value: its three fields, the log of what the operation  *)
(* under way has done, and whether the operation has panicked (an index    *)
(* out of range panics in Rust; what follows it does not run).             *)
(***************************************************************************)
Event(op, row, col, ch, attr) ==
  [op |-> op, row |-> row, col |-> col, ch |-> ch, attr |-> attr]

Log(w, e) == [w EXCEPT !.events = Append(@, e)]

\* Volatile::read of chars[row][col]
chars_read(w, row, col) == w.buffer[row][col]

\* Volatile::write of chars[row][col]
chars_write(w, row, col, character, by) ==
  IF w.fault THEN w
  ELSE IF row \in Rows /\ col \in Cols
  THEN [Log(w, Event(by, row, col, character.ascii_character, character.color_code))
          EXCEPT !.buffer[row][col] = character]
  ELSE [Log(w, Event("out_of_bounds", row, col, character.ascii_character, character.color_code))
          EXCEPT !.fault = TRUE]

RECURSIVE clear_row_cols(_, _, _, _)
clear_row_cols(w, row, blank, col) ==
  IF col >= BUFFER_WIDTH \/ w.fault THEN w
  ELSE clear_row_cols(chars_write(w, row, col, blank, "clear_row"), row, blank, col + 1)

\* clear_row with a blank of glyph 0 instead of the space
clear_row_nul(w, row) ==
  LET blank == ScreenChar(0, w.color_code)
  IN  clear_row_cols(w, row, blank, 0)

clear_row(w, row) ==
  LET blank == ScreenChar(SPACE, w.color_code)
  IN  clear_row_cols(w, row, blank, 0)

\* new_line_cols with the copy written back to the row it was read from
RECURSIVE new_line_cols_same_row(_, _, _)
new_line_cols_same_row(w, row, col) ==
  IF col >= BUFFER_WIDTH \/ w.fault THEN w
  ELSE LET character == chars_read(w, row, col)
           w1 == Log(w, Event("read", row, col, character.ascii_character, character.color_code))
       IN  new_line_cols_same_row(chars_write(w1, row, col, character, "new_line_copy"), row, col + 1)

RECURSIVE new_line_cols(_, _, _)
new_line_cols(w, row, col) ==
  IF col >= BUFFER_WIDTH \/ w.fault THEN w
  ELSE LET character == chars_read(w, row, col)
           w1 == Log(w, Event("read", row, col, character.ascii_character, character.color_code))
       IN  new_line_cols(chars_write(w1, row - 1, col, character, "new_line_copy"), row, col + 1)

RECURSIVE new_line_rows(_, _)
new_line_rows(w, row) ==
  IF row >= BUFFER_HEIGHT \/ w.fault THEN w
  ELSE new_line_rows(new_line_cols(w, row, 0), row + 1)

\* new_line without the reset of column_position
new_line_keep_column(w) ==
  LET w0 == Log(w, Event("new_line", 0, 0, 0, 0))
      w1 == new_line_rows(w0, 1)
  IN  clear_row(w1, BUFFER_HEIGHT - 1)

\* new_line with the loop over the rows starting at row 0
new_line_from_row_0(w) ==
  LET w0 == Log(w, Event("new_line", 0, 0, 0, 0))
      w1 == new_line_rows(w0, 0)
      w2 == clear_row(w1, BUFFER_HEIGHT - 1)
  IN  IF w2.fault THEN w2 ELSE [w2 EXCEPT !.column_position = 0]

new_line(w) ==
  LET w0 == Log(w, Event("new_line", 0, 0, 0, 0))
      w1 == new_line_rows(w0, 1)
      w2 == clear_row(w1, BUFFER_HEIGHT - 1)
  IN  IF w2.fault THEN w2 ELSE [w2 EXCEPT !.column_position = 0]

\* write_byte without the advance of column_position
write_byte_no_advance(w, byte) ==
  LET w0 == Log(w, Event("write_byte", 0, w.column_position, byte, 0))
  IN  IF byte = NEWLINE THEN new_line(w0)
      ELSE LET w1 == IF w0.column_position >= BUFFER_WIDTH THEN new_line(w0) ELSE w0
               row == BUFFER_HEIGHT - 1
               col == w1.column_position
           IN  chars_write(w1, row, col, ScreenChar(byte, w1.color_code), "put")

\* write_byte with the full-line test written > instead of >=
write_byte_late_wrap(w, byte) ==
  LET w0 == Log(w, Event("write_byte", 0, w.column_position, byte, 0))
  IN  IF byte = NEWLINE THEN new_line(w0)
      ELSE LET w1 == IF w0.column_position > BUFFER_WIDTH THEN new_line(w0) ELSE w0
               row == BUFFER_HEIGHT - 1
               col == w1.column_position
               w2 == chars_write(w1, row, col, ScreenChar(byte, w1.color_code), "put")
           IN  IF w2.fault THEN w2 ELSE [w2 EXCEPT !.column_position = @ + 1]

\* write_byte with the full-line test one column early
write_byte_early_wrap(w, byte) ==
  LET w0 == Log(w, Event("write_byte", 0, w.column_position, byte, 0))
  IN  IF byte = NEWLINE THEN new_line(w0)
      ELSE LET w1 == IF w0.column_position >= BUFFER_WIDTH - 1 THEN new_line(w0) ELSE w0
               row == BUFFER_HEIGHT - 1
               col == w1.column_position
               w2 == chars_write(w1, row, col, ScreenChar(byte, w1.color_code), "put")
           IN  IF w2.fault THEN w2 ELSE [w2 EXCEPT !.column_position = @ + 1]

write_byte(w, byte) ==
  LET w0 == Log(w, Event("write_byte", 0, w.column_position, byte, 0))
  IN  IF byte = NEWLINE THEN new_line(w0)
      ELSE LET w1 == IF w0.column_position >= BUFFER_WIDTH THEN new_line(w0) ELSE w0
               row == BUFFER_HEIGHT - 1
               col == w1.column_position
               w2 == chars_write(w1, row, col, ScreenChar(byte, w1.color_code), "put")
           IN  IF w2.fault THEN w2 ELSE [w2 EXCEPT !.column_position = @ + 1]

\* write_string's loop with the printable range starting after 0x20
RECURSIVE write_string_bytes_excl_lo(_, _, _)
write_string_bytes_excl_lo(w, s, i) ==
  IF i > Len(s) \/ w.fault THEN w
  ELSE LET byte == s[i]
           w1 == IF (byte > PRINTABLE_LO /\ byte <= PRINTABLE_HI) \/ byte = NEWLINE
                 THEN write_byte(w, byte)
                 ELSE write_byte(w, REPLACEMENT)
       IN  write_string_bytes_excl_lo(w1, s, i + 1)

\* write_string's loop without the substitution
RECURSIVE write_string_bytes_raw(_, _, _)
write_string_bytes_raw(w, s, i) ==
  IF i > Len(s) \/ w.fault THEN w
  ELSE write_string_bytes_raw(write_byte(w, s[i]), s, i + 1)

RECURSIVE write_string_bytes(_, _, _)
write_string_bytes(w, s, i) ==
  IF i > Len(s) \/ w.fault THEN w
  ELSE LET byte == s[i]
           w1 == IF (byte >= PRINTABLE_LO /\ byte <= PRINTABLE_HI) \/ byte = NEWLINE
                 THEN write_byte(w, byte)
                 ELSE write_byte(w, REPLACEMENT)
       IN  write_string_bytes(w1, s, i + 1)

\* write_string that wraps at its end when the row is full, instead of
\* leaving the wrap to the next write_byte
write_string_eager_wrap(w, s) ==
  LET w1 == write_string_bytes(Log(w, Event("write_string", 0, 0, Len(s), 0)), s, 1)
  IN  IF ~w1.fault /\ w1.column_position >= BUFFER_WIDTH THEN new_line(w1) ELSE w1

write_string(w, s) == write_string_bytes(Log(w, Event("write_string", 0, 0, Len(s), 0)), s, 1)

\* impl fmt::Write for Writer
write_str(w, s) == write_string(w, s)

\* Writer::write_fmt: core::fmt hands each piece of the Arguments to write_str
RECURSIVE write_fmt(_, _, _)
write_fmt(w, args, i) ==
  IF i > Len(args) \/ w.fault THEN w
  ELSE write_fmt(write_str(w, args[i]), args, i + 1)

(***************************************************************************)
(* The global WRITER.                                                      *)
(***************************************************************************)
WRITER_init(grid) ==
  [column_position |-> 0,
   color_code |-> ColorCode_new(Yellow, Black),
   buffer |-> grid]

Self ==
  [column_position |-> column_position,
   color_code |-> color_code,
   buffer |-> buffer,
   events |-> << >>,
   fault |-> FALSE]

Store(w) ==
  /\ column_position' = w.column_position
  /\ color_code' = w.color_code
  /\ buffer' = w.buffer
  /\ events' = w.events

IsPrintable(b) == b >= 32 /\ b <= 126

ScrollCount(evs) == Cardinality({i \in 1 .. Len(evs) : evs[i].op = "new_line"})

Cost(s) == IF Len(s) = 0 THEN 1 ELSE Len(s)

\* before the first scroll
NoScroll == [scrolled |-> FALSE, glyphs |-> << >>]

\* the position of the last event of a kind in a log, 0 when there is none
LastIndex(evs, kind) ==
  LET S == {i \in 1 .. Len(evs) : evs[i].op = kind}
  IN  IF S = {} THEN 0 ELSE CHOOSE i \in S : \A j \in S : j <= i

\* the history of the bottom row after an operation that did evs: new_line
\* starts it again, each glyph store of write_byte adds to it
Track(since, evs) ==
  LET last == LastIndex(evs, "new_line")
      puts == SelectSeq(SubSeq(evs, last + 1, Len(evs)), LAMBDA e : e.op = "put")
      glyphs == [k \in 1 .. Len(puts) |-> puts[k].ch]
  IN  IF last > 0 THEN [scrolled |-> TRUE, glyphs |-> glyphs]
      ELSE IF since.scrolled THEN [since EXCEPT !.glyphs = @ \o glyphs]
      ELSE since

RECURSIVE Flatten(_)
Flatten(args) == IF args = << >> THEN << >> ELSE Head(args) \o Flatten(Tail(args))

InitWriter ==
  /\ \E grid \in InitialGrids :
        LET w == WRITER_init(grid)
        IN  /\ column_position = w.column_position
            /\ color_code = w.color_code
            /\ buffer = w.buffer
  /\ events = << >>
  /\ lastOp = [op |-> "new", arg |-> << >>]
  /\ fed = 0
  /\ run = << >>
  /\ runScrolls = 0
  /\ sinceScroll = NoScroll

WriteByte(b) ==
  /\ fed + 1 <= MaxBytes
  /\ LET w == write_byte(Self, b)
     IN  /\ Store(w)
         /\ IF IsPrintable(b) /\ (run # << >> \/ column_position = 0)
            THEN /\ run' = Append(run, b)
                 /\ runScrolls' = (IF run = << >> THEN 0 ELSE runScrolls) + ScrollCount(w.events)
            ELSE /\ run' = << >>
                 /\ runScrolls' = 0
  /\ lastOp' = [op |-> "write_byte", arg |-> <<b>>]
  /\ fed' = fed + 1
  /\ sinceScroll' = Track(sinceScroll, events')
  /\ UNCHANGED <<harnessVars, lockVars, concVars>>

WriteString(s) ==
  /\ fed + Cost(s) <= MaxBytes
  /\ Store(write_string(Self, s))
  /\ lastOp' = [op |-> "write_string", arg |-> s]
  /\ fed' = fed + Cost(s)
  /\ run' = << >>
  /\ runScrolls' = 0
  /\ sinceScroll' = Track(sinceScroll, events')
  /\ UNCHANGED <<harnessVars, lockVars, concVars>>

\* _print with arguments whose formatting returns normally, in the single
\* execution context: the lock is free, is taken, and is released at the end
\* of the statement
CallPrint(args) ==
  /\ ~locked
  /\ fed + Cost(Flatten(args)) <= MaxBytes
  /\ Store(write_fmt(Self, args, 1))
  /\ lastOp' = [op |-> "_print", arg |-> Flatten(args)]
  /\ fed' = fed + Cost(Flatten(args))
  /\ run' = << >>
  /\ runScrolls' = 0
  /\ sinceScroll' = Track(sinceScroll, events')
  /\ UNCHANGED <<harnessVars, lockVars, concVars>>

(***************************************************************************)
(* write_string on the Writer as constructed: one call, with strings up to *)
(* one byte longer than a row.                                             *)
(***************************************************************************)
\* the text of _start's println!: "Hello World" and the argument "!"
HelloWorld == <<72, 101, 108, 108, 111, 32, 87, 111, 114, 108, 100, 33>>

\* the greeting on a grid whose row is narrower than the greeting: as much of
\* it as leaves a cell free after it, as the whole greeting does on 80 columns
Greeting ==
  IF Len(HelloWorld) < BUFFER_WIDTH THEN HelloWorld
  ELSE SubSeq(HelloWorld, 1, BUFFER_WIDTH - 1)

FreshBytes == {NEWLINE, 32, 72, 126, 127}
FreshStrings == SeqsUpTo(FreshBytes, BUFFER_WIDTH + 1) \cup {Greeting}

WriteStringFresh(s) ==
  /\ lastOp.op = "new"
  /\ Store(write_string(Self, s))
  /\ lastOp' = [op |-> "write_string", arg |-> s]
  /\ fed' = fed + Len(s)
  /\ run' = << >>
  /\ runScrolls' = 0
  /\ sinceScroll' = Track(sinceScroll, events')
  /\ UNCHANGED <<harnessVars, lockVars, concVars>>

(***************************************************************************)
(* The test harness and the exit protocol (lib.rs, main.rs).               *)
(***************************************************************************)
Success == 16
Failed == 17

Emitted(chan, text, arg) == [chan |-> chan, text |-> text, arg |-> arg]

\* serial_print! / serial_println!: the diagnostic channel takes the text
serial_print(o, text, arg) == Append(o, Emitted("serial", text, arg))

\* print! / println! on the VGA console
println(o, text, arg) == Append(o, Emitted("vga", text, arg))

\* exit_qemu writing the status the emulator exits with, (code << 1) | 1,
\* instead of the code
exit_qemu_status(o, exit_code) == Append(o, Emitted("port", "0xf4", 2 * exit_code + 1))

\* Port::new(0xf4).write(exit_code as u32): QemuExitCode is repr(u32), the
\* cast keeps the discriminant
exit_qemu(o, exit_code) == Append(o, Emitted("port", "0xf4", exit_code))

\* after the write the emulator ends the process, or the caller goes on
AfterExit(next) == IF qemu = "exits" THEN "exited" ELSE next

TestOutcomes == {"ok", "abort"}
TestSuites == SeqsUpTo(TestOutcomes, MaxTests)

InitHarness ==
  /\ mode \in {"lib_test", "bin_test", "bin_boot"}
  /\ tests \in (IF mode = "bin_boot" THEN {<< >>} ELSE TestSuites)
  /\ startAborts \in (IF mode = "bin_boot" THEN BOOLEAN ELSE {FALSE})
  /\ qemu \in {"exits", "ignores"}
  /\ pc = "start"
  /\ idx = 0
  /\ out = << >>
  /\ executed = << >>

\* lib.rs _start -> test_main -> test_runner, up to the loop
Lib_test_runner_begin ==
  /\ mode = "lib_test" /\ pc = "start"
  /\ out' = serial_print(out, "Running {} tests\n", Len(tests))
  /\ idx' = 1
  /\ pc' = "loop"
  /\ UNCHANGED <<mode, tests, startAborts, qemu, executed>>
  /\ UNCHANGED <<writerVars, lockVars, concVars>>

\* Testable::run: the name of the case, before it is called
Testable_run_name ==
  /\ mode = "lib_test" /\ pc = "loop" /\ idx <= Len(tests)
  /\ out' = serial_print(out, "{}...\t", idx)
  /\ pc' = "call"
  /\ UNCHANGED <<mode, tests, startAborts, qemu, idx, executed>>
  /\ UNCHANGED <<writerVars, lockVars, concVars>>

\* Testable::run: self(), with a case that aborts treated as one that returns
Testable_run_call_isolated ==
  /\ mode = "lib_test" /\ pc = "call"
  /\ executed' = Append(executed, idx)
  /\ pc' = "ret"
  /\ UNCHANGED <<mode, tests, startAborts, qemu, idx, out>>
  /\ UNCHANGED <<writerVars, lockVars, concVars>>

\* Testable::run: self()
Testable_run_call ==
  /\ mode = "lib_test" /\ pc = "call"
  /\ executed' = Append(executed, idx)
  /\ pc' = IF tests[idx] = "ok" THEN "ret" ELSE "panic"
  /\ UNCHANGED <<mode, tests, startAborts, qemu, idx, out>>
  /\ UNCHANGED <<writerVars, lockVars, concVars>>

\* Testable::run: "[ok]" once the case has returned; back to the loop
Testable_run_ok ==
  /\ mode = "lib_test" /\ pc = "ret"
  /\ out' = serial_print(out, "[ok]\n", 0)
  /\ idx' = idx + 1
  /\ pc' = "loop"
  /\ UNCHANGED <<mode, tests, startAborts, qemu, executed>>
  /\ UNCHANGED <<writerVars, lockVars, concVars>>

\* lib.rs test_runner after the loop, then _start's loop {}
Lib_test_runner_exit ==
  /\ mode = "lib_test" /\ pc = "loop" /\ idx > Len(tests)
  /\ out' = exit_qemu(out, Success)
  /\ pc' = AfterExit("halt")
  /\ UNCHANGED <<mode, tests, startAborts, qemu, idx, executed>>
  /\ UNCHANGED <<writerVars, lockVars, concVars>>

\* test_panic_handler returning to the runner, as after a case that
\* returned, when the emulator has not ended the process
test_panic_handler_resumes ==
  /\ mode = "lib_test" /\ pc = "panic"
  /\ out' = exit_qemu(serial_print(serial_print(out, "[failed]\n\n", 0), "Error: {}\n\n", idx), Failed)
  /\ pc' = AfterExit("ret")
  /\ UNCHANGED <<mode, tests, startAborts, qemu, idx, executed>>
  /\ UNCHANGED <<writerVars, lockVars, concVars>>

\* lib.rs panic -> test_panic_handler
test_panic_handler ==
  /\ mode = "lib_test" /\ pc = "panic"
  /\ out' = exit_qemu(serial_print(serial_print(out, "[failed]\n\n", 0), "Error: {}\n\n", idx), Failed)
  /\ pc' = AfterExit("halt")
  /\ UNCHANGED <<mode, tests, startAborts, qemu, idx, executed>>
  /\ UNCHANGED <<writerVars, lockVars, concVars>>

\* main.rs _start: the greeting, then test_main() in a test build
Bin_start ==
  /\ mode \in {"bin_test", "bin_boot"} /\ pc = "start"
  /\ out' = println(out, "Hello World{}\n", 0)
  /\ pc' = IF mode = "bin_test" THEN "runner"
           ELSE IF startAborts THEN "panic" ELSE "halt"
  /\ UNCHANGED <<mode, tests, startAborts, qemu, idx, executed>>
  /\ UNCHANGED <<writerVars, lockVars, concVars>>

\* main.rs test_runner, up to the loop
Bin_test_runner_begin ==
  /\ mode = "bin_test" /\ pc = "runner"
  /\ out' = println(out, "Running {} tests\n", Len(tests))
  /\ idx' = 1
  /\ pc' = "loop"
  /\ UNCHANGED <<mode, tests, startAborts, qemu, executed>>
  /\ UNCHANGED <<writerVars, lockVars, concVars>>

\* main.rs test_runner: test()
Bin_test_call ==
  /\ mode = "bin_test" /\ pc = "loop" /\ idx <= Len(tests)
  /\ executed' = Append(executed, idx)
  /\ IF tests[idx] = "ok"
     THEN idx' = idx + 1 /\ pc' = "loop"
     ELSE idx' = idx /\ pc' = "panic"
  /\ UNCHANGED <<mode, tests, startAborts, qemu, out>>
  /\ UNCHANGED <<writerVars, lockVars, concVars>>

\* main.rs test_runner after the loop, then _start's loop {}
Bin_test_runner_exit ==
  /\ mode = "bin_test" /\ pc = "loop" /\ idx > Len(tests)
  /\ out' = exit_qemu(out, Success)
  /\ pc' = AfterExit("halt")
  /\ UNCHANGED <<mode, tests, startAborts, qemu, idx, executed>>
  /\ UNCHANGED <<writerVars, lockVars, concVars>>

\* main.rs panic: the handler of the binary, in the boot and in the test build
Bin_panic ==
  /\ mode \in {"bin_test", "bin_boot"} /\ pc = "panic"
  /\ out' = println(out, "{}\n", idx)
  /\ pc' = "halt"
  /\ UNCHANGED <<mode, tests, startAborts, qemu, idx, executed>>
  /\ UNCHANGED <<writerVars, lockVars, concVars>>

\* loop {}
IdleLoop ==
  /\ pc = "halt"
  /\ UNCHANGED vars

\* the images at rest, for the specifications that do not run them
HarnessIdle ==
  /\ mode = "none"
  /\ tests = << >>
  /\ startAborts = FALSE
  /\ qemu = "ignores"
  /\ pc = "none"
  /\ idx = 0
  /\ out = << >>
  /\ executed = << >>

\* the console at rest, for the specifications that do not write to it
WriterIdle ==
  /\ column_position = 0
  /\ color_code = ColorCode_new(Yellow, Black)
  /\ buffer = FirmwareGrid
  /\ events = << >>
  /\ lastOp = [op |-> "new", arg |-> << >>]
  /\ fed = 0
  /\ run = << >>
  /\ runScrolls = 0
  /\ sinceScroll = NoScroll

\* the lock at rest, for the specifications that do not take it apart
LockIdle ==
  /\ locked = FALSE
  /\ frames = << >>
  /\ ctx = "none"
  /\ prints = 0

\* no concurrent callers, for the specifications with the single context
ConcIdle ==
  /\ callers = << >>
  /\ stream = << >>

Init == InitWriter /\ HarnessIdle /\ LockIdle /\ ConcIdle

Next ==
  \/ \E b \in TestBytes : WriteByte(b)
  \/ \E s \in TestStrings : WriteString(s)
  \/ \E args \in PrintArgs : CallPrint(args)

Spec == Init /\ [][Next]_vars

\* the Writer operations on strings cut from a newline, a printable byte and
\* a byte that is substituted
FragStrings == SeqsUpTo(PieceBytes, MaxStrLen)

FragNext ==
  \/ \E b \in PieceBytes : WriteByte(b)
  \/ \E s \in FragStrings : WriteString(s)
  \/ \E args \in PrintArgs : CallPrint(args)

FragSpec == Init /\ [][FragNext]_vars

\* one write_string on the Writer as constructed
FreshNext == \E s \in FreshStrings : WriteStringFresh(s)

FreshSpec == Init /\ [][FreshNext]_vars

\* ColorCode::new on every pair of colours: the pair is drawn at the start
ColorInit ==
  /\ \E foreground \in Colors : \E background \in Colors :
        lastOp = [op |-> "colours", arg |-> <<foreground, background>>]
  /\ column_position = 0
  /\ color_code = ColorCode_new(Yellow, Black)
  /\ buffer = FirmwareGrid
  /\ events = << >>
  /\ fed = 0
  /\ run = << >>
  /\ runScrolls = 0
  /\ sinceScroll = NoScroll
  /\ HarnessIdle /\ LockIdle /\ ConcIdle

New_ColorCode ==
  /\ lastOp.op = "colours"
  /\ color_code' = ColorCode_new(lastOp.arg[1], lastOp.arg[2])
  /\ lastOp' = [op |-> "ColorCode::new", arg |-> lastOp.arg]
  /\ UNCHANGED <<column_position, buffer, events, fed, run, runScrolls, sinceScroll>>
  /\ UNCHANGED <<harnessVars, lockVars, concVars>>

ColorNext == New_ColorCode

ColorSpec == ColorInit /\ [][ColorNext]_vars

HarnessInit == InitHarness /\ WriterIdle /\ LockIdle /\ ConcIdle

HarnessNext ==
  \/ Lib_test_runner_begin
  \/ Testable_run_name
  \/ Testable_run_call
  \/ Testable_run_ok
  \/ Lib_test_runner_exit
  \/ test_panic_handler
  \/ Bin_start
  \/ Bin_test_runner_begin
  \/ Bin_test_call
  \/ Bin_test_runner_exit
  \/ Bin_panic
  \/ IdleLoop

HarnessSpec == HarnessInit /\ [][HarnessNext]_vars

\* the single execution context always takes its next step: nothing else
\* runs, and a test case returns or aborts
HarnessFairSpec == HarnessSpec /\ WF_vars(HarnessNext)

(***************************************************************************)
(* _print and the spin lock of WRITER, step by step (vga_buffer.rs:178-181 *)
(* and the panic handler of the binary, main.rs:25-29), in the single      *)
(* execution context.  A piece of the Arguments is a literal or an         *)
(* argument whose formatting returns its text, or an argument whose        *)
(* formatting aborts (a Display implementation that panics, or one that    *)
(* returns Err so that the unwrap() panics while the guard is alive).      *)
(* The image has no unwinder: the handler runs on top of the interrupted   *)
(* frame, whose guard is not dropped.                                      *)
(***************************************************************************)
Text(bytes) == [aborts |-> FALSE, text |-> bytes]
AbortingArg == [aborts |-> TRUE, text |-> << >>]

LockPieces == {Text(<<126>>), Text(<<NEWLINE>>), AbortingArg}
LockArgs == SeqsUpTo(LockPieces, MaxPieces) \ {<< >>}

\* println!("{}", info) in the panic handler
InfoArgs == << Text(<<126>>), Text(<<NEWLINE>>) >>

Frame(args) == [args |-> args, i |-> 1, at |-> "lock"]

Top == frames[Len(frames)]
SetTop(f) == [frames EXCEPT ![Len(frames)] = f]
Pop == SubSeq(frames, 1, Len(frames) - 1)

\* the innermost frame is the one executing, unless the handler has just
\* been entered and has not called println! yet
Running == frames # << >> /\ ctx \in {"app", "handler_print"}

InitLock ==
  /\ locked = FALSE
  /\ frames = << >>
  /\ ctx = "app"
  /\ prints = 0

\* the application calls print! / println!: _print is entered
App_print(args) ==
  /\ ctx = "app" /\ frames = << >>
  /\ prints < MaxPrints
  /\ frames' = << Frame(args) >>
  /\ prints' = prints + 1
  /\ UNCHANGED <<locked, ctx>>
  /\ UNCHANGED <<writerVars, harnessVars, concVars>>

\* the application aborts outside any print: the panic handler is entered
App_panic ==
  /\ ctx = "app" /\ frames = << >>
  /\ ctx' = "handler"
  /\ UNCHANGED <<locked, frames, prints>>
  /\ UNCHANGED <<writerVars, harnessVars, concVars>>

\* WRITER.lock(): spin::Mutex::lock takes the flag if it is clear and tries
\* again if it is set
Mutex_lock ==
  /\ Running /\ Top.at = "lock"
  /\ IF locked
     THEN UNCHANGED <<locked, frames>>
     ELSE /\ locked' = TRUE
          /\ frames' = SetTop([Top EXCEPT !.at = "fmt"])
  /\ UNCHANGED <<ctx, prints>>
  /\ UNCHANGED <<writerVars, harnessVars, concVars>>

\* write_fmt: the next piece goes to write_str
Write_fmt_piece ==
  /\ Running /\ Top.at = "fmt" /\ Top.i <= Len(Top.args)
  /\ ~Top.args[Top.i].aborts
  /\ Store(write_str(Self, Top.args[Top.i].text))
  /\ lastOp' = [op |-> "write_str", arg |-> Top.args[Top.i].text]
  /\ fed' = fed + Len(Top.args[Top.i].text)
  /\ run' = << >>
  /\ runScrolls' = 0
  /\ sinceScroll' = Track(sinceScroll, events')
  /\ frames' = SetTop([Top EXCEPT !.i = @ + 1])
  /\ UNCHANGED <<locked, ctx, prints>>
  /\ UNCHANGED <<harnessVars, concVars>>

\* write_fmt: formatting the next piece aborts; the handler is entered with
\* the frame suspended and its guard alive
Write_fmt_abort ==
  /\ Running /\ Top.at = "fmt" /\ Top.i <= Len(Top.args)
  /\ Top.args[Top.i].aborts
  /\ ctx' = "handler"
  /\ UNCHANGED <<locked, frames, prints>>
  /\ UNCHANGED <<writerVars, harnessVars, concVars>>

\* the end of the statement in _print: the guard is dropped, _print returns;
\* in the handler the loop {} follows
Print_return ==
  /\ Running /\ Top.at = "fmt" /\ Top.i > Len(Top.args)
  /\ locked' = FALSE
  /\ frames' = Pop
  /\ ctx' = IF ctx = "handler_print" THEN "halt" ELSE ctx
  /\ UNCHANGED prints
  /\ UNCHANGED <<writerVars, harnessVars, concVars>>

\* main.rs panic: println!("{}", info)
Panic_print ==
  /\ ctx = "handler"
  /\ frames' = Append(frames, Frame(InfoArgs))
  /\ ctx' = "handler_print"
  /\ UNCHANGED <<locked, prints>>
  /\ UNCHANGED <<writerVars, harnessVars, concVars>>

LockInit == WriterIdle /\ HarnessIdle /\ InitLock /\ ConcIdle

LockNext ==
  \/ \E args \in LockArgs : App_print(args)
  \/ App_panic
  \/ Mutex_lock
  \/ Write_fmt_piece
  \/ Write_fmt_abort
  \/ Print_return
  \/ Panic_print

LockSpec == LockInit /\ [][LockNext]_vars

(***************************************************************************)
(* _print called from several execution contexts at once.  Each context    *)
(* has its own stack of _print calls; the lock flag and the Writer are     *)
(* shared.  The contexts interleave at the steps of _print: taking the     *)
(* lock, each write_str of write_fmt, and the return.                      *)
(***************************************************************************)
Contexts == {1, 2}

\* what the contexts print: one piece, two pieces, and an argument whose
\* formatting aborts before and after a piece has been written
ConcArgs ==
  { << Text(<<126>>) >>,
    << Text(<<127>>), Text(<<NEWLINE>>) >>,
    << AbortingArg >>,
    << Text(<<126>>), AbortingArg >> }

CallFrame(args, id) == [args |-> args, i |-> 1, at |-> "lock", id |-> id]

TopOf(p) == callers[p].frames[Len(callers[p].frames)]
SetTopOf(p, f) == [callers[p].frames EXCEPT ![Len(callers[p].frames)] = f]

RunningIn(p) == callers[p].frames # << >> /\ callers[p].ctx \in {"app", "handler_print"}

InitContexts ==
  /\ locked = FALSE
  /\ callers = [p \in Contexts |-> [frames |-> << >>, ctx |-> "app", prints |-> 0]]
  /\ stream = << >>
  /\ frames = << >>
  /\ ctx = "app"
  /\ prints = 0

\* context p calls print! / println!: _print is entered
Ctx_print(p, args) ==
  /\ callers[p].ctx = "app" /\ callers[p].frames = << >>
  /\ callers[p].prints < MaxPrints
  /\ callers' = [callers EXCEPT ![p].frames = << CallFrame(args, <<p, callers[p].prints + 1>>) >>,
                                ![p].prints = @ + 1]
  /\ UNCHANGED <<locked, stream>>
  /\ UNCHANGED <<frames, ctx, prints>>
  /\ UNCHANGED <<writerVars, harnessVars>>

\* WRITER.lock() in context p, with a test-and-set that takes the flag
\* whether or not it is clear
Ctx_lock_unchecked(p) ==
  /\ RunningIn(p) /\ TopOf(p).at = "lock"
  /\ locked' = TRUE
  /\ callers' = [callers EXCEPT ![p].frames = SetTopOf(p, [TopOf(p) EXCEPT !.at = "fmt"])]
  /\ UNCHANGED stream
  /\ UNCHANGED <<frames, ctx, prints>>
  /\ UNCHANGED <<writerVars, harnessVars>>

\* WRITER.lock() in context p: spin::Mutex::lock takes the flag if it is
\* clear and tries again if it is set
Ctx_lock(p) ==
  /\ RunningIn(p) /\ TopOf(p).at = "lock"
  /\ IF locked
     THEN UNCHANGED <<locked, callers>>
     ELSE /\ locked' = TRUE
          /\ callers' = [callers EXCEPT ![p].frames = SetTopOf(p, [TopOf(p) EXCEPT !.at = "fmt"])]
  /\ UNCHANGED stream
  /\ UNCHANGED <<frames, ctx, prints>>
  /\ UNCHANGED <<writerVars, harnessVars>>

\* write_fmt in context p: the next piece goes to write_str, which forwards
\* each of its bytes to the Writer
Ctx_write_piece(p) ==
  /\ RunningIn(p) /\ TopOf(p).at = "fmt" /\ TopOf(p).i <= Len(TopOf(p).args)
  /\ ~TopOf(p).args[TopOf(p).i].aborts
  /\ Store(write_str(Self, TopOf(p).args[TopOf(p).i].text))
  /\ lastOp' = [op |-> "write_str", arg |-> TopOf(p).args[TopOf(p).i].text]
  /\ fed' = fed + Len(TopOf(p).args[TopOf(p).i].text)
  /\ run' = << >>
  /\ runScrolls' = 0
  /\ sinceScroll' = Track(sinceScroll, events')
  /\ stream' = stream \o [k \in 1 .. Len(TopOf(p).args[TopOf(p).i].text) |-> TopOf(p).id]
  /\ callers' = [callers EXCEPT ![p].frames = SetTopOf(p, [TopOf(p) EXCEPT !.i = @ + 1])]
  /\ UNCHANGED locked
  /\ UNCHANGED <<frames, ctx, prints>>
  /\ UNCHANGED harnessVars

\* write_fmt in context p: formatting the next piece aborts; the handler is
\* entered in that context with the frame suspended and its guard alive
Ctx_abort(p) ==
  /\ RunningIn(p) /\ TopOf(p).at = "fmt" /\ TopOf(p).i <= Len(TopOf(p).args)
  /\ TopOf(p).args[TopOf(p).i].aborts
  /\ callers' = [callers EXCEPT ![p].ctx = "handler"]
  /\ UNCHANGED <<locked, stream>>
  /\ UNCHANGED <<frames, ctx, prints>>
  /\ UNCHANGED <<writerVars, harnessVars>>

\* the end of the statement in _print in context p: the guard is dropped,
\* _print returns; in the handler the loop {} follows
Ctx_return(p) ==
  /\ RunningIn(p) /\ TopOf(p).at = "fmt" /\ TopOf(p).i > Len(TopOf(p).args)
  /\ locked' = FALSE
  /\ callers' = [callers EXCEPT
        ![p].frames = SubSeq(@, 1, Len(@) - 1),
        ![p].ctx = IF @ = "handler_print" THEN "halt" ELSE @]
  /\ UNCHANGED stream
  /\ UNCHANGED <<frames, ctx, prints>>
  /\ UNCHANGED <<writerVars, harnessVars>>

\* main.rs panic in context p: println!("{}", info)
Ctx_panic_print(p) ==
  /\ callers[p].ctx = "handler"
  /\ callers' = [callers EXCEPT
        ![p].frames = Append(@, CallFrame(InfoArgs, <<p, 0>>)),
        ![p].ctx = "handler_print"]
  /\ UNCHANGED <<locked, stream>>
  /\ UNCHANGED <<frames, ctx, prints>>
  /\ UNCHANGED <<writerVars, harnessVars>>

ConcInit == WriterIdle /\ HarnessIdle /\ InitContexts

ConcNext ==
  \E p \in Contexts :
    \/ \E args \in ConcArgs : Ctx_print(p, args)
    \/ Ctx_lock(p)
    \/ Ctx_write_piece(p)
    \/ Ctx_abort(p)
    \/ Ctx_return(p)
    \/ Ctx_panic_print(p)

ConcSpec == ConcInit /\ [][ConcNext]_vars

(***************************************************************************)
(* Reading the history.                                                    *)
(***************************************************************************)
\* the step is a call of write_byte(b) on the Writer
IsWriteByteStep(b) ==
  /\ fed' = fed + 1
  /\ lastOp' = [op |-> "write_byte", arg |-> <<b>>]

IsCall(e) == e.op = "write_byte"
IsPut(e) == e.op = "put"
IsNewLine(e) == e.op = "new_line"
IsStore(e) == e.op \in {"put", "clear_row"}
NotNewline(b) == b # NEWLINE

Calls(evs) == SelectSeq(evs, IsCall)
Puts(evs) == SelectSeq(evs, IsPut)

Blank == ScreenChar(32, color_code)
BottomRow == BUFFER_HEIGHT - 1

\* the position of the first event of a kind in a log, 0 when there is none
FirstIndex(evs, kind) ==
  LET S == {i \in 1 .. Len(evs) : evs[i].op = kind}
  IN  IF S = {} THEN 0 ELSE CHOOSE i \in S : \A j \in S : i <= j

(***************************************************************************)
(* C1: write_byte of a printable byte b with the cursor at column          *)
(* n < WIDTH stores b with the current attribute at (HEIGHT-1, n), moves   *)
(* the cursor to n+1 and changes no other cell of the grid.                *)
(***************************************************************************)
C1_WriteByteFrame ==
  [][\A b \in TestBytes : \A n \in Cols :
       (IsWriteByteStep(b) /\ IsPrintable(b) /\ column_position = n) =>
          /\ buffer' = [buffer EXCEPT ![BottomRow][n] = ScreenChar(b, color_code)]
          /\ column_position' = n + 1
          /\ color_code' = color_code]_vars

\* an empty bottom row (just cleared by a scroll), then two printable bytes
C1_Witness ==
  /\ lastOp.op = "write_byte"
  /\ Len(run) = 2
  /\ column_position = 2
  /\ buffer[BottomRow][0] = ScreenChar(run[1], color_code)
  /\ buffer[BottomRow][1] = ScreenChar(run[2], color_code)
  /\ \A c \in Cols : c >= 2 => buffer[BottomRow][c] = Blank

(***************************************************************************)
(* C2: a scroll moves every cell (k, c), k in 1..HEIGHT-1, to (k-1, c)     *)
(* unchanged, discards the old row 0, blanks every column of row HEIGHT-1  *)
(* with the current attribute and sets the cursor column to 0.  Checked    *)
(* on every write_byte step that scrolls: the newline (scroll only) and    *)
(* the wrap (scroll, then the byte at column 0).                           *)
(***************************************************************************)
C2_ScrollShiftsRows ==
  [][\A b \in TestBytes :
       (IsWriteByteStep(b) /\ ScrollCount(events') = 1) =>
          /\ \A k \in 1 .. (BUFFER_HEIGHT - 1) : \A c \in Cols :
                buffer'[k - 1][c] = buffer[k][c]
          /\ \A c \in Cols :
                buffer'[BottomRow][c] =
                   IF b # NEWLINE /\ c = 0 THEN ScreenChar(b, color_code) ELSE Blank
          /\ column_position' = (IF b = NEWLINE THEN 0 ELSE 1)]_vars

\* a newline written when the grid holds firmware cells, written glyphs and
\* blanks: the rows above the bottom one differ from each other
C2_Witness ==
  /\ lastOp = [op |-> "write_byte", arg |-> <<NEWLINE>>]
  /\ column_position = 0
  /\ \A c \in Cols : buffer[BottomRow][c] = Blank
  /\ \E c \in Cols : buffer[BottomRow - 1][c].ascii_character = 126
  /\ \E c \in Cols : buffer[BottomRow - 1][c] = Blank
  /\ buffer[0] = FirmwareGrid[2]

(***************************************************************************)
(* C3: from cursor column 0, WIDTH+1 printable bytes written one after     *)
(* the other with write_byte scroll exactly once, in the (WIDTH+1)-th      *)
(* write and before its byte is placed; that byte ends at column 0 of the  *)
(* bottom row with the cursor at 1, the first WIDTH bytes in row HEIGHT-2. *)
(***************************************************************************)
C3_WrapScrollsOnce ==
  /\ (Len(run) >= 1 /\ Len(run) <= BUFFER_WIDTH) =>
        /\ runScrolls = 0
        /\ column_position = Len(run)
  /\ Len(run) = BUFFER_WIDTH + 1 =>
        /\ runScrolls = 1
        /\ ScrollCount(events) = 1
        /\ FirstIndex(events, "new_line") < FirstIndex(events, "put")
        /\ Len(Puts(events)) = 1
        /\ buffer[BottomRow][0] = ScreenChar(run[BUFFER_WIDTH + 1], color_code)
        /\ \A c \in Cols : c >= 1 => buffer[BottomRow][c] = Blank
        /\ column_position = 1
        /\ \A c \in Cols : buffer[BottomRow - 1][c] = ScreenChar(run[c + 1], color_code)

C3_Witness ==
  /\ Len(run) = BUFFER_WIDTH + 1
  /\ column_position = 1
  /\ buffer[BottomRow][0].ascii_character = run[BUFFER_WIDTH + 1]

(***************************************************************************)
(* C4: write_byte of the newline byte, at any cursor column 0..WIDTH,      *)
(* scrolls exactly once, writes no glyph cell for the newline and leaves   *)
(* the cursor column at 0.                                                 *)
(***************************************************************************)
C4_NewlineScrollsOnce ==
  [][IsWriteByteStep(NEWLINE) =>
        /\ column_position \in 0 .. BUFFER_WIDTH
        /\ ScrollCount(events') = 1
        /\ Puts(events') = << >>
        /\ \A c \in Cols : buffer'[BottomRow][c] = Blank
        /\ column_position' = 0]_vars

\* the newline written with the cursor at WIDTH (a full line)
C4_Witness ==
  /\ lastOp = [op |-> "write_byte", arg |-> <<NEWLINE>>]
  /\ events[1].col = BUFFER_WIDTH
  /\ column_position = 0

(***************************************************************************)
(* C5: write_string forwards, byte by byte and in order, each printable    *)
(* byte and each newline unchanged to write_byte and the replacement       *)
(* glyph 0xFE for any other byte; the glyph stored for a byte that is not  *)
(* printable is 0xFE.                                                      *)
(***************************************************************************)
Forwarded(b) == IF (b >= 32 /\ b <= 126) \/ b = 10 THEN b ELSE 254

C5_SubstitutesReplacement ==
  lastOp.op = "write_string" =>
     LET s == lastOp.arg
         calls == Calls(events)
         puts == Puts(events)
         glyphs == SelectSeq(s, NotNewline)
     IN  /\ Len(calls) = Len(s)
         /\ \A i \in 1 .. Len(s) : calls[i].ch = Forwarded(s[i])
         /\ Len(puts) = Len(glyphs)
         /\ \A i \in 1 .. Len(glyphs) :
               /\ puts[i].ch = Forwarded(glyphs[i])
               /\ puts[i].attr = color_code
               /\ puts[i].row = BottomRow
         /\ (s # << >> /\ s[Len(s)] # NEWLINE) =>
               buffer[BottomRow][column_position - 1] =
                  ScreenChar(Forwarded(s[Len(s)]), color_code)

\* a string with a byte below and a byte above the printable range
C5_Witness ==
  /\ lastOp = [op |-> "write_string", arg |-> <<31, 127>>]
  /\ buffer[BottomRow][column_position - 1].ascii_character = 254
  /\ Len(Puts(events)) = 2

(***************************************************************************)
(* C6 as stated: every glyph the Writer stores, in any public operation,   *)
(* is printable ASCII, the newline byte or 0xFE.                           *)
(***************************************************************************)
AllowedGlyph(ch) == (ch >= 32 /\ ch <= 126) \/ ch = 10 \/ ch = 254

C6_Original ==
  \A i \in 1 .. Len(events) : IsStore(events[i]) => AllowedGlyph(events[i].ch)

(***************************************************************************)
(* C6 amended: every glyph stored by write_string or by a formatted print  *)
(* is printable ASCII or 0xFE (the newline byte is never stored);          *)
(* write_byte called directly stores the byte it is given, whatever it is, *)
(* unless it is the newline.                                               *)
(***************************************************************************)
C6_StoredGlyphs ==
  /\ lastOp.op \in {"write_string", "_print"} =>
        \A i \in 1 .. Len(events) :
           IsStore(events[i]) =>
              (events[i].ch >= 32 /\ events[i].ch <= 126) \/ events[i].ch = 254
  /\ lastOp.op = "write_byte" =>
        \A i \in 1 .. Len(events) :
           /\ IsPut(events[i]) => events[i].ch = lastOp.arg[1] /\ events[i].ch # NEWLINE
           /\ events[i].op = "clear_row" => events[i].ch = 32

\* a formatted print of a printable byte and of one that is not
C6_Witness ==
  /\ lastOp = [op |-> "_print", arg |-> <<126, 127>>]
  /\ Len(Puts(events)) = 2
  /\ Puts(events)[2].ch = 254

(***************************************************************************)
(* Reading the transcript.                                                 *)
(***************************************************************************)
Terminated == pc \in {"halt", "exited"}

PortWrites == SelectSeq(out, LAMBDA e : e.chan = "port")
Wrote(code) == \E i \in 1 .. Len(out) : out[i].chan = "port" /\ out[i].arg = code

AllOk(ts) == \A i \in 1 .. Len(ts) : ts[i] = "ok"
SomeAbort(ts) == \E i \in 1 .. Len(ts) : ts[i] = "abort"

IsPrefix(a, b) == Len(a) <= Len(b) /\ SubSeq(b, 1, Len(a)) = a

\* the transcript the library's harness is to produce for a suite
RECURSIVE ExpectedCases(_, _)
ExpectedCases(ts, i) ==
  IF i > Len(ts) THEN << Emitted("port", "0xf4", 16) >>
  ELSE IF ts[i] = "ok"
       THEN << Emitted("serial", "{}...\t", i), Emitted("serial", "[ok]\n", 0) >>
               \o ExpectedCases(ts, i + 1)
       ELSE << Emitted("serial", "{}...\t", i),
               Emitted("serial", "[failed]\n\n", 0),
               Emitted("serial", "Error: {}\n\n", i),
               Emitted("port", "0xf4", 17) >>

ExpectedTranscript(ts) ==
  << Emitted("serial", "Running {} tests\n", Len(ts)) >> \o ExpectedCases(ts, 1)

\* the cases up to and including the first one that aborts
RECURSIVE UpToFirstAbort(_, _)
UpToFirstAbort(ts, i) ==
  IF i > Len(ts) THEN << >>
  ELSE IF ts[i] = "ok" THEN <<i>> \o UpToFirstAbort(ts, i + 1)
  ELSE <<i>>

OkLines == Len(SelectSeq(out, LAMBDA e : e.text = "[ok]\n"))

(***************************************************************************)
(* C7: the library's test_runner emits "Running N tests", then runs the    *)
(* cases in order, the name of each before it executes and "[ok]" after    *)
(* it returns; the first abort emits "[failed]", the description, then     *)
(* the exit with Failed, and no later case executes.  The transcript has   *)
(* one "[ok]" per case before the first abort.                             *)
(***************************************************************************)
C7_HarnessTranscript ==
  mode = "lib_test" =>
     /\ IsPrefix(out, ExpectedTranscript(tests))
     /\ IsPrefix(executed, UpToFirstAbort(tests, 1))
     /\ Terminated => /\ out = ExpectedTranscript(tests)
                      /\ executed = UpToFirstAbort(tests, 1)
                      /\ OkLines = Len(executed) - (IF SomeAbort(tests) THEN 1 ELSE 0)
     /\ pc = "call" => out[Len(out)] = Emitted("serial", "{}...\t", idx)
     /\ executed # << >> => out[1] = Emitted("serial", "Running {} tests\n", Len(tests))

\* the cases ok, ok, abort: two "[ok]", then "[failed]", then Failed
C7_Witness ==
  /\ mode = "lib_test"
  /\ tests = <<"ok", "ok", "abort">>
  /\ Terminated
  /\ OkLines = 2
  /\ out[Len(out)] = Emitted("port", "0xf4", 17)
  /\ out[Len(out) - 2].text = "[failed]\n\n"

(***************************************************************************)
(* C8: a harness (the library's or the binary's test_runner) writes        *)
(* Success to the exit port if and only if every case returned normally,   *)
(* and only after the last case has returned; it writes Failed if and      *)
(* only if some case aborted; Success is never written in a run in which   *)
(* a case aborted.                                                         *)
(***************************************************************************)
C8_ExitStatus ==
  mode \in {"lib_test", "bin_test"} =>
     /\ Wrote(16) => AllOk(tests) /\ Len(executed) = Len(tests)
     /\ Wrote(17) => SomeAbort(tests)
     /\ Terminated => /\ AllOk(tests) <=> Wrote(16)
                      /\ SomeAbort(tests) <=> Wrote(17)

(***************************************************************************)
(* C9: when code aborts, a diagnostic description is produced first; then  *)
(* the boot image halts without writing to the exit port, and a test       *)
(* image (the library's and the binary's) invokes the exit protocol with   *)
(* Failed.                                                                 *)
(***************************************************************************)
Aborted == startAborts \/ (executed # << >> /\ tests[executed[Len(executed)]] = "abort")

IsDescription(e) == e.chan \in {"serial", "vga"} /\ e.text \in {"Error: {}\n\n", "{}\n"}

C9_PanicBehaviour ==
  (Aborted /\ Terminated) =>
     /\ \E i \in 1 .. Len(out) : IsDescription(out[i])
     /\ mode = "bin_boot" => pc = "halt" /\ PortWrites = << >>
     /\ mode \in {"lib_test", "bin_test"} =>
           /\ Len(PortWrites) = 1
           /\ out[Len(out)] = Emitted("port", "0xf4", 17)
           /\ IsDescription(out[Len(out) - 1])

(***************************************************************************)
(* C10: with a single execution context, acquiring the lock of the global  *)
(* console never blocks indefinitely: every call of _print, the one of the *)
(* panic handler and a re-entrant one included, obtains the lock.  With    *)
(* one context the holder of a taken lock is a frame the caller has        *)
(* interrupted, which runs again only after the caller returns: a call     *)
(* that finds the lock taken spins for ever.  The claim is therefore that  *)
(* no call of _print ever finds the lock taken.                            *)
(***************************************************************************)
WaitingForLock == Running /\ Top.at = "lock"

HeldBySuspendedFrame ==
  locked /\ \E j \in 1 .. (Len(frames) - 1) : frames[j].at = "fmt"

C10_LockObtained == ~(WaitingForLock /\ HeldBySuspendedFrame)

\* once a call waits for a lock held by a frame beneath it, no step of the
\* execution context changes anything: it spins in Mutex_lock for ever
BlockedStaysBlocked ==
  [][(WaitingForLock /\ HeldBySuspendedFrame) => UNCHANGED vars]_vars

(***************************************************************************)
(* C11: the console lock is held for the whole of one formatting-and-write *)
(* call and released when it ends.  With several contexts calling _print   *)
(* at once, the bytes one call forwards to the Writer form one contiguous  *)
(* block of the Writer's byte sequence, at most one context is inside the  *)
(* Writer at any time, a call that is inside the Writer holds the lock,    *)
(* and the lock is free whenever no call of _print is in progress.         *)
(***************************************************************************)
InsideWriter(p) == \E j \in 1 .. Len(callers[p].frames) : callers[p].frames[j].at = "fmt"

InProgress(p) == callers[p].frames # << >>

Contiguous(seq) ==
  \A i \in 1 .. Len(seq) : \A k \in i .. Len(seq) :
    seq[i] = seq[k] => \A j \in i .. k : seq[j] = seq[i]

C11_LockSerialisesPrints ==
  /\ Contiguous(stream)
  /\ Cardinality({p \in DOMAIN callers : InsideWriter(p)}) <= 1
  /\ (\E p \in DOMAIN callers : InsideWriter(p)) => locked
  /\ (\A p \in DOMAIN callers : ~InProgress(p)) => ~locked

\* a call has put its block in the byte sequence and returned; now another
\* context is halfway through its block while the first context, calling
\* again, waits for the lock
C11_Witness ==
  \E p \in DOMAIN callers : \E q \in DOMAIN callers \ {p} :
    /\ InsideWriter(p) /\ TopOf(p).i = 2 /\ Len(TopOf(p).args) = 2
    /\ InProgress(q) /\ TopOf(q).at = "lock" /\ callers[q].prints = 2
    /\ \E i \in 1 .. Len(stream) : stream[i] = <<q, 1>>
    /\ stream[Len(stream)] = <<p, 1>>
    /\ Len(stream) >= 3

(***************************************************************************)
(* C12: write_string of n printable bytes, n <= WIDTH and no newline, on   *)
(* the Writer as constructed, with the cursor at column 0, leaves those    *)
(* glyphs in order in the cells 0..n-1 of the bottom row, each with the    *)
(* configured attribute, the cursor at column n, and does not scroll.  For *)
(* the greeting "Hello World!" these are the cells up to the one before    *)
(* the cursor column, which is the number of its glyphs.                   *)
(***************************************************************************)
AllPrintable(s) == \A k \in 1 .. Len(s) : IsPrintable(s[k])

\* the glyphs of the cells lo..hi of the bottom row, in order
BottomGlyphs(lo, hi) == [k \in 1 .. (hi - lo + 1) |-> buffer[BottomRow][lo + k - 1].ascii_character]

BottomAttributes(lo, hi) == {buffer[BottomRow][c].color_code : c \in lo .. hi}

AfterFreshWriteString(s) == lastOp = [op |-> "write_string", arg |-> s]

C12_FreshWriteString ==
  \A s \in FreshStrings :
    (AfterFreshWriteString(s) /\ AllPrintable(s) /\ Len(s) <= BUFFER_WIDTH) =>
       /\ BottomGlyphs(0, Len(s) - 1) = s
       /\ BottomAttributes(0, Len(s) - 1) \subseteq {ColorCode_new(Yellow, Black)}
       /\ color_code = ColorCode_new(Yellow, Black)
       /\ column_position = Len(s)
       /\ ScrollCount(events) = 0

\* C12 as the specification words the greeting: the cells 0..12, which are
\* one more than the greeting's 12 glyphs, the last one being the cell at the
\* cursor column
C12_Original ==
  /\ C12_FreshWriteString
  /\ AfterFreshWriteString(Greeting) =>
        /\ BottomGlyphs(0, Len(Greeting)) = Greeting
        /\ column_position = Len(Greeting)

\* a full row of printable bytes: the cursor stands at WIDTH, nothing scrolled
C12_Witness ==
  /\ lastOp.op = "write_string"
  /\ Len(lastOp.arg) = BUFFER_WIDTH /\ AllPrintable(lastOp.arg)
  /\ column_position = BUFFER_WIDTH
  /\ BottomGlyphs(0, BUFFER_WIDTH - 1) = lastOp.arg

(***************************************************************************)
(* C13: packing is a lossless round trip.  For each of the 16 x 16 pairs   *)
(* of foreground and background, ColorCode::new(fg, bg) is the byte        *)
(* (bg << 4) | fg: its low nibble is fg, its high nibble is bg, no other   *)
(* pair gives the same byte, and the shift does not overflow 8 bits.       *)
(***************************************************************************)
Packed == lastOp.op = "ColorCode::new"

C13_PackRoundTrip ==
  Packed =>
    LET fg == lastOp.arg[1]
        bg == lastOp.arg[2]
    IN  /\ color_code \in 0 .. 255
        /\ bg * 16 < 256
        /\ color_code = bg * 16 + fg
        /\ color_code % 16 = fg
        /\ color_code \div 16 = bg
        /\ \A f2 \in Colors : \A b2 \in Colors :
              ColorCode_new(f2, b2) = color_code => f2 = fg /\ b2 = bg

\* White on White: both nibbles full, the largest shift
C13_Witness ==
  /\ Packed
  /\ lastOp.arg = <<15, 15>>
  /\ color_code = 255

(***************************************************************************)
(* C14: the exit protocol writes the status code unchanged to I/O port     *)
(* 0xF4.  Every write to a port goes to 0xF4 and carries 0x10 or 0x11:     *)
(* 0x11 (Failed) when the panic handler of the test harness has written    *)
(* its error line just before, 0x10 (Success) otherwise, which is the      *)
(* write at the end of a test_runner.  The exit operation adds nothing     *)
(* else to what the image emits.                                           *)
(***************************************************************************)
ErrorLineBefore(i) == i > 1 /\ out[i - 1] = Emitted("serial", "Error: {}\n\n", idx)

C14_ExitPortWrite ==
  /\ \A i \in 1 .. Len(out) :
       out[i].chan = "port" =>
          /\ out[i].text = "0xf4"
          /\ out[i].arg \in {1 * 16 + 0, 1 * 16 + 1}
          /\ out[i].arg = (IF ErrorLineBefore(i) THEN 1 * 16 + 1 ELSE 1 * 16 + 0)
  /\ \A i \in 1 .. Len(out) : out[i].chan \in {"serial", "vga", "port"}

\* Failed has been written after an abort, and the emulator ignored it
C14_Witness ==
  /\ pc = "halt" /\ Len(out) > 0
  /\ out[Len(out)] = Emitted("port", "0xf4", 17)
  /\ ~AllOk(tests)

(***************************************************************************)
(* C15: in every state reached from the Writer with the cursor at column 0 *)
(* by write_byte and write_string calls, the cursor column is between 0    *)
(* and WIDTH, and every access to the grid (the reads and the copies of a  *)
(* scroll, the stores of clear_row, the glyph store of write_byte) is to a *)
(* cell with row < HEIGHT and column < WIDTH.  The glyph store of          *)
(* write_byte is in row HEIGHT-1 at a column below WIDTH, and every byte   *)
(* that is not a newline is stored: none is dropped.                       *)
(***************************************************************************)
IsAccess(e) == e.op \in {"read", "new_line_copy", "clear_row", "put", "out_of_bounds"}

StoredBytes(evs) == [k \in 1 .. Len(Puts(evs)) |-> Puts(evs)[k].ch]

\* the bytes write_byte was called with, the replacement glyph where
\* write_string substituted, without the newlines
GivenBytes(evs) ==
  LET given == SelectSeq(Calls(evs), LAMBDA e : e.ch # NEWLINE)
  IN  [k \in 1 .. Len(given) |-> given[k].ch]

C15_AccessesInBounds ==
  /\ column_position \in 0 .. BUFFER_WIDTH
  /\ \A i \in 1 .. Len(events) :
       /\ IsAccess(events[i]) =>
             /\ events[i].op # "out_of_bounds"
             /\ events[i].row \in 0 .. (BUFFER_HEIGHT - 1)
             /\ events[i].col \in 0 .. (BUFFER_WIDTH - 1)
       /\ IsPut(events[i]) =>
             /\ events[i].row = BUFFER_HEIGHT - 1
             /\ events[i].col < BUFFER_WIDTH
  /\ StoredBytes(events) = GivenBytes(events)

\* write_byte called with the cursor at WIDTH: the scroll reads and copies,
\* then the glyph goes to column 0 of the bottom row
C15_Witness ==
  /\ lastOp.op = "write_byte"
  /\ events[1].op = "write_byte" /\ events[1].col = BUFFER_WIDTH
  /\ \E i \in 1 .. Len(events) : events[i].op = "new_line_copy"
  /\ events[Len(events)] = Event("put", BUFFER_HEIGHT - 1, 0, lastOp.arg[1], color_code)
  /\ column_position = 1

(***************************************************************************)
(* C16: when every test case returns or aborts, every run of the harness   *)
(* reaches Terminated: the exit protocol is invoked, with Success or with  *)
(* Failed, and after that the process stays in its idle loop.  The idle    *)
(* loop is never left, so a harness that is in its idle loop has invoked   *)
(* the exit protocol before.                                               *)
(***************************************************************************)
IsHarness == mode \in {"lib_test", "bin_test"}

C16_HarnessExits ==
  (IsHarness /\ pc = "halt") => (Wrote(Success) \/ Wrote(Failed))

\* the same as a property of whole runs, under HarnessFairSpec
HarnessEventuallyExits ==
  IsHarness => <>(Terminated /\ (Wrote(Success) \/ Wrote(Failed)))

\* every run of every image reaches Terminated and stays there
EventuallyTerminated == <>[]Terminated

\* the library's harness does invoke the exit protocol in every run
LibHarnessEventuallyExits ==
  (mode = "lib_test") => <>[](Terminated /\ Len(PortWrites) = 1)

(***************************************************************************)
(* C17: in one run, also when the emulator ignores the write to the exit   *)
(* port and execution goes on, at most one status code is written to the   *)
(* exit port, and after it nothing more is emitted on the diagnostic       *)
(* channel, on the text buffer or on the port: the write to the port is    *)
(* the last thing the run emits, and the caller is in its idle loop.       *)
(***************************************************************************)
C17_ExitIsLast ==
  /\ Len(PortWrites) <= 1
  /\ \A i \in 1 .. Len(out) : out[i].chan = "port" => i = Len(out)
  /\ PortWrites # << >> => pc \in {"halt", "exited"}
  /\ (PortWrites # << >> /\ qemu = "ignores") => pc = "halt"

\* the emulator ignored a Failed written for the first of several cases: the
\* run idles with the later cases not run and nothing emitted after the write
C17_Witness ==
  /\ qemu = "ignores" /\ pc = "halt"
  /\ mode = "lib_test" /\ Len(tests) >= 2 /\ tests[1] = "abort"
  /\ executed = <<1>>
  /\ Len(PortWrites) = 1
  /\ out[Len(out)].chan = "port"

(***************************************************************************)
(* C18: once a scroll has occurred, in every state of the Writer each cell *)
(* of the bottom row at a column >= the cursor column is blank (a space    *)
(* with the Writer's attribute), and each cell of the bottom row at a      *)
(* column < the cursor column holds a glyph written since the most recent  *)
(* scroll: the glyphs written since then, in the order they were written.  *)
(***************************************************************************)
C18_BottomRowShape ==
  sinceScroll.scrolled =>
    /\ \A c \in Cols : c >= column_position => buffer[BottomRow][c] = Blank
    /\ Len(sinceScroll.glyphs) = column_position
    /\ \A c \in Cols : c < column_position =>
          buffer[BottomRow][c] = ScreenChar(sinceScroll.glyphs[c + 1], color_code)

\* after a scroll the row has been filled in part by more than one
\* operation: glyphs before the cursor, blanks from it on
C18_Witness ==
  /\ sinceScroll.scrolled
  /\ column_position = 2 /\ column_position < BUFFER_WIDTH
  /\ ScrollCount(events) = 0
  /\ lastOp.op = "write_byte"
  /\ buffer[BottomRow][0].ascii_character # SPACE
  /\ buffer[BottomRow][BUFFER_WIDTH - 1] = Blank

(***************************************************************************)
(* C19: output does not depend on how it is cut into pieces.  From any     *)
(* Writer state, write_string(s) leaves the grid and the cursor column     *)
(* that write_string(s1) followed by write_string(s2) leaves, for every    *)
(* way of cutting s into s1 and s2, and that write_byte on each byte of s  *)
(* in order leaves, with the replacement glyph for the bytes write_string  *)
(* substitutes.  A formatted print, which reaches the Writer as several    *)
(* write_str pieces, leaves what one write_string of the concatenated      *)
(* pieces leaves.                                                          *)
(***************************************************************************)
Substituted(b) == IF IsPrintable(b) \/ b = NEWLINE THEN b ELSE REPLACEMENT

RECURSIVE ByteByByte(_, _, _)
ByteByByte(w, s, i) ==
  IF i > Len(s) THEN w
  ELSE ByteByByte(write_byte(w, Substituted(s[i])), s, i + 1)

InTwoPieces(w, s, k) == write_string(write_string(w, SubSeq(s, 1, k)), SubSeq(s, k + 1, Len(s)))

\* the screen of the next state is the screen of the Writer w
NextScreenIs(w) == w.buffer = buffer' /\ w.column_position = column_position'

IsWriteStringStep == fed' # fed /\ lastOp'.op = "write_string"

IsPrintStep == fed' # fed /\ lastOp'.op = "_print"

C19_FragmentationIndependent ==
  [][/\ IsWriteStringStep =>
          /\ \A k \in 0 .. Len(lastOp'.arg) : NextScreenIs(InTwoPieces(Self, lastOp'.arg, k))
          /\ NextScreenIs(ByteByByte(Self, lastOp'.arg, 1))
     /\ IsPrintStep => NextScreenIs(write_string(Self, lastOp'.arg))]_vars

\* a string of two bytes written across the end of the row: the first byte
\* fills the row, the second scrolls
C19_Witness ==
  /\ lastOp.op = "write_string" /\ Len(lastOp.arg) = 2
  /\ AllPrintable(lastOp.arg)
  /\ events[2].op = "write_byte" /\ events[2].col = BUFFER_WIDTH - 1
  /\ ScrollCount(events) = 1
  /\ column_position = 1

====
